---------------------------- MODULE Spec2Model ----------------------------
(***************************************************************************)
(* Model of test-libopencm3-stm32f1/adc-dual-stm32f103.c: dual ADC scan    *)
(* conversion, DMA capture into v[], decimal formatting in adc1_2_isr and  *)
(* interrupt-driven USART transmission through a ring buffer.              *)
(*                                                                         *)
(* Contexts: main (lowest priority), adc1_2_isr and usart1_isr (equal      *)
(* NVIC priority: the source sets none, so the handlers never nest and     *)
(* the lower IRQ number, ADC1_2, is taken first).  A pending enabled       *)
(* interrupt is taken before the next step of main.  Hardware (timer,      *)
(* ADC, DMA, USART shifter, serial input) is the environment.              *)
(*                                                                         *)
(* buffer.h / buffer.c are not part of the source tree: the ring buffer    *)
(* operations are modelled from the written specification (section 4.1).   *)
(***************************************************************************)
EXTENDS Integers, Sequences, FiniteSets, TLC

(* ------------------------------------------------------------------ *)
(* Program constants                                                  *)
(* ------------------------------------------------------------------ *)
BUFFER_SIZE == 128
V_WORDS == 128
n_conv == 8
DMA_NUMBER_OF_DATA == 64
TIMER_TICKS == 500
Banner == <<68, 117, 97, 108, 32, 65, 68, 67, 32, 56, 32, 99, 104, 97, 110,
            110, 101, 108, 115, 32, 48, 45, 55, 32, 68, 77, 65, 32, 73, 82,
            81, 13, 10>>
Diag1 == <<65, 68, 67, 49, 95, 83, 81, 82, 51, 32, 102, 105, 101, 108, 100,
           115, 32>>
Diag2 == <<13, 10, 65, 68, 67, 50, 95, 83, 81, 82, 51, 32, 102, 105, 101,
           108, 100, 115, 32>>
CRLF == <<13, 10>>
Dash == <<45, 32>>

(* ------------------------------------------------------------------ *)
(* Bounds of the model                                                *)
(* ------------------------------------------------------------------ *)
\* number of start-conversion commands explored
MaxCycles == 2
\* number of bytes the serial input delivers
MaxRx == 1
\* timer compare events that can fall into one conversion burst
MaxTicksInFlight == 1
\* number of puts offered in the ring buffer specification
MaxPuts == 132

(* ------------------------------------------------------------------ *)
(* Ring buffer (modelled from the specification, section 4.1)         *)
(* ------------------------------------------------------------------ *)
\* the value buffer_get returns for "empty": a reserved high bit pattern
EmptyMarker == 256

\* A buffer of the zero-initialised globals send_buffer / receive_buffer:
\* no capacity configured yet.  data holds the slots written so far (slot
\* index -> byte); every other slot still holds its initial zero.
ZeroBuffer == [head |-> 0, tail |-> 0, size |-> 0, data |-> <<>>]

SlotWrite(slots, k, byte) ==
    [j \in (DOMAIN slots) \cup {k} |-> IF j = k THEN byte ELSE slots[j]]

SlotRead(slots, k) == IF k \in DOMAIN slots THEN slots[k] ELSE 0

\* init(capacity): head and tail reset to zero
buffer_init(buf, size) == [buf EXCEPT !.head = 0, !.tail = 0, !.size = size]

\* one slot is reserved to tell full from empty
BufAdvance(buf, k) == (k + 1) % (buf.size + 1)

BufEmpty(buf) == buf.head = buf.tail

BufFull(buf) == BufAdvance(buf, buf.tail) = buf.head

\* put(byte): write at tail and advance it; a no-op when full
buffer_put(buf, byte) ==
    IF BufFull(buf) THEN buf
    ELSE [buf EXCEPT !.data = SlotWrite(buf.data, buf.tail, byte),
                     !.tail = BufAdvance(buf, buf.tail)]

\* get(): <<buffer after, value>>; the empty marker when head = tail
buffer_get(buf) ==
    IF BufEmpty(buf) THEN <<buf, EmptyMarker>>
    ELSE <<[buf EXCEPT !.head = BufAdvance(buf, buf.head)],
           SlotRead(buf.data, buf.head)>>

\* number of stored bytes, and the stored bytes oldest first
BufCount(buf) == (buf.tail - buf.head + buf.size + 1) % (buf.size + 1)

BufContents(buf) ==
    [k \in 1 .. BufCount(buf) |->
        SlotRead(buf.data, (buf.head + k - 1) % (buf.size + 1))]

\* a sequence of puts of which one that finds the buffer full discards the
\* oldest stored byte to make room
RECURSIVE PutAllDisplacing(_, _, _, _)
PutAllDisplacing(buf, bytes, acc, drop) ==
    IF bytes = <<>> THEN <<buf, acc, drop>>
    ELSE LET room == IF BufFull(buf) THEN buffer_get(buf)[1] ELSE buf
             one == <<buffer_put(room, Head(bytes)), Tail(bytes),
                      Append(acc, Head(bytes)),
                      IF BufFull(buf) THEN drop + 1 ELSE drop>>
         IN  CHOOSE r \in { PutAllDisplacing(n[1], n[2], n[3], n[4]) :
                               n \in {one} } : TRUE

\* a sequence of puts, as usart_print_string and usart_print_int issue
\* them: <<buffer after, bytes accepted, number dropped>>.  The state after
\* one put is bound as a value (the element of a singleton) before the
\* remaining puts are applied to it.
RECURSIVE PutAll(_, _, _, _)
PutAll(buf, bytes, acc, drop) ==
    IF bytes = <<>> THEN <<buf, acc, drop>>
    ELSE LET one == IF BufFull(buf)
                    THEN <<buf, Tail(bytes), acc, drop + 1>>
                    ELSE <<buffer_put(buf, Head(bytes)), Tail(bytes),
                           Append(acc, Head(bytes)), drop>>
         IN  CHOOSE r \in { PutAll(n[1], n[2], n[3], n[4]) : n \in {one} } :
                TRUE

(* ------------------------------------------------------------------ *)
(* Formatting                                                         *)
(* ------------------------------------------------------------------ *)
\* C int is 32 bits wide on this target
IntMin == (0 - 2147483647) - 1

\* "0123456789"[d]
DigitChar(d) == 48 + d

\* A 32-bit word of the sample store or of the dual data register is held
\* as its two 16-bit halves: the word is hi * 65536 + lo.
Word(hi, lo) == <<hi, lo>>

\* The sample store v holds the words written so far (index -> word); every
\* other word of v[V_WORDS] still holds its initial zero.
VRead(store, k) == IF k \in DOMAIN store THEN store[k] ELSE Word(0, 0)

VWrite(store, k, w) ==
    [j \in (DOMAIN store) \cup {k} |-> IF j = k THEN w ELSE store[j]]

\* lines 313-317: the digits of value > 0, least significant first
RECURSIVE DigitsLsdFirst(_)
DigitsLsdFirst(value) ==
    IF value > 0 THEN <<DigitChar(value % 10)>> \o DigitsLsdFirst(value \div 10)
    ELSE <<>>

Reverse(s) == [k \in 1 .. Len(s) |-> s[Len(s) + 1 - k]]

\* line 310: value * -1 (wraps for INT_MIN, which no caller passes)
Negate(value) == IF value = IntMin THEN IntMin ELSE 0 - value

\* usart_print_int with the digits emitted in the order they were produced
usart_print_int_unreversed(value) ==
    LET sign == IF value < 0 THEN <<45>> ELSE <<>>
        mag == IF value < 0 THEN Negate(value) ELSE value
        buffer == IF mag = 0 THEN <<DigitChar(0)>> ELSE DigitsLsdFirst(mag)
    IN  sign \o buffer \o <<32>>

\* usart_print_int: the bytes handed to buffer_put, in order
usart_print_int(value) ==
    LET sign == IF value < 0 THEN <<45>> ELSE <<>>
        mag == IF value < 0 THEN Negate(value) ELSE value
        buffer == IF mag = 0 THEN <<DigitChar(0)>> ELSE DigitsLsdFirst(mag)
    IN  sign \o Reverse(buffer) \o <<32>>

\* usart_print_string: the bytes handed to buffer_put, in order
usart_print_string(ch) == ch

\* the low half cast to int16_t before the call
LowHalfSigned(w) ==
    IF w[2] % 65536 >= 32768 THEN (w[2] % 65536) - 65536 ELSE w[2] % 65536

\* line 366: v[i] & 0xFFFF, an unsigned value below 65536 passed as int
LowHalf(w) == w[2] % 65536

\* line 368: v[i] >> 16, an unsigned value below 65536 passed as int
HighHalf(w) == w[1] % 65536

\* one iteration with the two print_int calls exchanged
IsrPairBytesSwapped(w) ==
    usart_print_int(HighHalf(w)) \o usart_print_string(Dash)
        \o usart_print_int(LowHalf(w))

\* lines 366-368: one iteration of the handler's loop
IsrPairBytes(w) ==
    usart_print_int(LowHalf(w)) \o usart_print_string(Dash)
        \o usart_print_int(HighHalf(w))

\* the test with the mask one bit too wide
IsEmptyResultWideMask(data) == (data \div 128) % 512 > 0

\* the test applied to the low byte instead of the high byte
IsEmptyResultLowByte(data) == data % 256 > 0

\* line 395: the test usart1_isr applies to the value buffer_get returned
IsEmptyResult(data) == (data \div 256) % 256 > 0

\* adc_set_regular_sequence(adc, length, channel): 5-bit fields of SQR3
RECURSIVE Sqr3(_, _)
Sqr3(length, channel) ==
    IF length = 0 THEN 0
    ELSE Sqr3(length - 1, channel) + channel[length] * (32 ^ (length - 1))


(* ------------------------------------------------------------------ *)
(* State                                                              *)
(* ------------------------------------------------------------------ *)
VARIABLES
    pc,              \* main: the statement it is at
    i,               \* main: uint16_t i (line 78)
    out,             \* main: bytes the print call in progress has still to put
    value,           \* main: argument of its usart_print_int call (line 301)
    send_buffer,     \* line 70
    receive_buffer,  \* line 71
    v,               \* line 68: the sample store
    usart,           \* USART1: enable, interrupt enables, status flags, RDR
    tim,             \* TIM2: counter enable, CC1IF
    adc,             \* ADC1/ADC2: power, calibration, SQR3, burst in progress
    dma,             \* DMA1 channel 1: enable, memory index, count
    nvic,            \* interrupt enables and the pending ADC1_2 interrupt
    adc_isr,         \* adc1_2_isr: "idle" or "loop"
    isr_i,           \* adc1_2_isr: static uint8_t i (line 363)
    data,            \* usart1_isr: static uint16_t data (line 382)
    accepted,        \* history: bytes the outbound buffer accepted
    sent,            \* history: bytes written to the USART transmit register
    dropped,         \* history: number of puts the outbound buffer dropped
    cycles,          \* history: number of start-conversion commands
    rx_count,        \* history: number of bytes the serial input delivered
    adc_age          \* timer compare events during the burst in progress

vars == <<pc, i, out, value, send_buffer, receive_buffer, v, usart, tim, adc,
          dma, nvic, adc_isr, isr_i, data, accepted, sent, dropped, cycles,
          rx_count, adc_age>>

mainv == <<pc, i, out, value>>
histv == <<accepted, sent, dropped>>
agev == <<adc_age>>
isrv == <<adc_isr, isr_i, data>>

\* serial input and analog input
RxBytes == {88}
Scenes == { <<Word(1, 2), Word(3, 4), Word(5, 6), Word(7, 8)>>,
            <<Word(4095, 4095), Word(4095, 4095), Word(4095, 4095),
              Word(4095, 4095)>> }

\* dma_setup (lines 194-211): channel reset, memory address v, count 64,
\* channel enabled
DmaArmed == [en |-> TRUE, ptr |-> 0, cnt |-> DMA_NUMBER_OF_DATA]

Init ==
    /\ pc = "clock_setup"
    /\ i = 0
    /\ out = <<>>
    /\ value = 0
    /\ send_buffer = ZeroBuffer
    /\ receive_buffer = ZeroBuffer
    /\ v = <<>>
    /\ usart = [ue |-> FALSE, txeie |-> FALSE, rxneie |-> FALSE,
                txe |-> TRUE, rxne |-> FALSE, rdr |-> 0]
    /\ tim = [run |-> FALSE, cc1if |-> FALSE]
    /\ adc = [on |-> <<FALSE, FALSE>>, settled |-> <<FALSE, FALSE>>,
              cal |-> <<"none", "none">>, sqr3 |-> <<0, 0>>,
              eocie |-> FALSE, dmaen |-> FALSE,
              left |-> 0, dr |-> Word(0, 0),
              scene |-> [k \in 1 .. (n_conv \div 2) |-> Word(0, 0)],
              req |-> FALSE, eoc |-> FALSE]
    /\ dma = [en |-> FALSE, ptr |-> 0, cnt |-> 0]
    /\ nvic = [usart |-> FALSE, adc |-> FALSE, adc_pending |-> FALSE]
    /\ adc_isr = "idle"
    /\ isr_i = 0
    /\ data = 0
    /\ accepted = <<>>
    /\ sent = <<>>
    /\ dropped = 0
    /\ cycles = 0
    /\ rx_count = 0
    /\ adc_age = 0

(* ------------------------------------------------------------------ *)
(* Scheduling                                                         *)
(* ------------------------------------------------------------------ *)
\* the DMA channel serves a request within a few bus cycles, before the
\* processor executes its next step
DmaReady == adc.req /\ adc.dmaen /\ dma.en /\ dma.cnt > 0

UsartIrq ==
    /\ nvic.usart
    /\ usart.ue
    /\ \/ usart.txeie /\ usart.txe
       \/ usart.rxneie /\ usart.rxne

AdcIrq == nvic.adc /\ nvic.adc_pending

\* main runs only while no handler is active or pending
MainRuns == ~DmaReady /\ adc_isr = "idle" /\ ~AdcIrq /\ ~UsartIrq

\* a statement of main that changes nothing but its position
Goto(from, to) ==
    /\ MainRuns
    /\ pc = from
    /\ out = <<>>
    /\ pc' = to


(* ------------------------------------------------------------------ *)
(* main: setup (lines 80-87)                                          *)
(* ------------------------------------------------------------------ *)
clock_setup ==
    /\ Goto("clock_setup", "gpio_setup")
    /\ UNCHANGED <<i, out, value, send_buffer, receive_buffer, v, usart, tim,
                   adc, dma, nvic, isrv, histv, cycles, rx_count, agev>>

gpio_setup ==
    /\ Goto("gpio_setup", "usart_setup")
    /\ UNCHANGED <<i, out, value, send_buffer, receive_buffer, v, usart, tim,
                   adc, dma, nvic, isrv, histv, cycles, rx_count, agev>>

\* lines 147-173: NVIC enable, RXNE interrupt on, TXE interrupt off, USART on
usart_setup ==
    /\ Goto("usart_setup", "dma_setup")
    /\ nvic' = [nvic EXCEPT !.usart = TRUE]
    /\ usart' = [usart EXCEPT !.rxneie = TRUE, !.txeie = FALSE, !.ue = TRUE]
    /\ UNCHANGED <<i, out, value, send_buffer, receive_buffer, v, tim, adc,
                   dma, isrv, histv, cycles, rx_count, agev>>

\* line 83
main_dma_setup ==
    /\ Goto("dma_setup", "adc_config")
    /\ dma' = DmaArmed
    /\ UNCHANGED <<i, out, value, send_buffer, receive_buffer, v, usart, tim,
                   adc, nvic, isrv, histv, cycles, rx_count, agev>>

\* lines 220-246: clocks, NVIC enable, both units off, scan mode, DMA and
\* EOC interrupt of unit 1, dual mode
adc_config ==
    /\ Goto("adc_config", "adc1_on")
    /\ nvic' = [nvic EXCEPT !.adc = TRUE]
    /\ adc' = [adc EXCEPT !.on = <<FALSE, FALSE>>,
                          !.settled = <<FALSE, FALSE>>,
                          !.dmaen = TRUE, !.eocie = TRUE]
    /\ UNCHANGED <<i, out, value, send_buffer, receive_buffer, v, usart, tim,
                   dma, isrv, histv, cycles, rx_count, agev>>

AdcUnchanged ==
    UNCHANGED <<i, out, value, send_buffer, receive_buffer, v, usart, tim,
                dma, nvic, isrv, histv, cycles, rx_count, agev>>

\* lines 248 / 256
adc_power_on(u, from, to) ==
    /\ Goto(from, to)
    /\ adc' = [adc EXCEPT !.on[u] = TRUE]
    /\ AdcUnchanged

\* lines 251-252 / 258-259: the settle delay
adc_settle(u, from, to) ==
    /\ Goto(from, to)
    /\ adc' = [adc EXCEPT !.settled[u] = adc.on[u]]
    /\ AdcUnchanged

\* lines 253 / 260
adc_reset_calibration(u, from, to) ==
    /\ Goto(from, to)
    /\ adc' = [adc EXCEPT !.cal[u] = "reset"]
    /\ AdcUnchanged

\* lines 254 / 261
adc_calibrate_async(u, from, to) ==
    /\ Goto(from, to)
    /\ adc' = [adc EXCEPT !.cal[u] = "running"]
    /\ AdcUnchanged

\* the calibration started and not waited for
adc_no_wait(u, from, to) ==
    /\ Goto(from, to)
    /\ UNCHANGED adc
    /\ AdcUnchanged

\* lines 255 / 262: while (adc_is_calibrating(...));
adc_wait_calibration(u, from, to) ==
    /\ Goto(from, to)
    /\ adc.cal[u] # "running"
    /\ UNCHANGED adc
    /\ AdcUnchanged

adc_setup ==
    \/ adc_config
    \/ adc_power_on(1, "adc1_on", "adc1_delay")
    \/ adc_settle(1, "adc1_delay", "adc1_rstcal")
    \/ adc_reset_calibration(1, "adc1_rstcal", "adc1_cal")
    \/ adc_calibrate_async(1, "adc1_cal", "adc1_wait")
    \/ adc_wait_calibration(1, "adc1_wait", "adc2_on")
    \/ adc_power_on(2, "adc2_on", "adc2_delay")
    \/ adc_settle(2, "adc2_delay", "adc2_rstcal")
    \/ adc_reset_calibration(2, "adc2_rstcal", "adc2_cal")
    \/ adc_calibrate_async(2, "adc2_cal", "adc2_wait")
    \/ adc_wait_calibration(2, "adc2_wait", "timer_setup")

\* lines 269-287: TIM2 counting, compare value set
timer_setup ==
    /\ Goto("timer_setup", "init_send")
    /\ tim' = [tim EXCEPT !.run = TRUE]
    /\ UNCHANGED <<i, out, value, send_buffer, receive_buffer, v, usart, adc,
                   dma, nvic, isrv, histv, cycles, rx_count, agev>>

\* the size of the storage passed as the capacity
StorageBytes == BUFFER_SIZE + 3

\* the capacity main configures (lines 86 and 87)
MainBufferSize == BUFFER_SIZE

\* line 86
init_send_buffer ==
    /\ Goto("init_send", "init_recv")
    /\ send_buffer' = buffer_init(send_buffer, MainBufferSize)
    /\ UNCHANGED <<i, out, value, receive_buffer, v, usart, tim, adc, dma,
                   nvic, isrv, histv, cycles, rx_count, agev>>

\* line 87
init_receive_buffer ==
    /\ Goto("init_recv", "tx_enable")
    /\ receive_buffer' = buffer_init(receive_buffer, MainBufferSize)
    /\ UNCHANGED <<i, out, value, send_buffer, v, usart, tim, adc, dma, nvic,
                   isrv, histv, cycles, rx_count, agev>>

\* line 88
main_enable_tx ==
    /\ Goto("tx_enable", "banner")
    /\ usart' = [usart EXCEPT !.txeie = TRUE]
    /\ UNCHANGED <<i, out, value, send_buffer, receive_buffer, v, tim, adc,
                   dma, nvic, isrv, histv, cycles, rx_count, agev>>


(* ------------------------------------------------------------------ *)
(* main: banner, channel sequences, diagnostics (lines 91-119)        *)
(* ------------------------------------------------------------------ *)
\* the statement after a print call
AfterPrint(at) ==
    CASE at = "banner" -> "seq1"
      [] at = "diag1" -> "d1f0"
      [] at = "d1f0" -> "d1f1"
      [] at = "d1f1" -> "d1f2"
      [] at = "d1f2" -> "d1f3"
      [] at = "d1f3" -> "diag2"
      [] at = "diag2" -> "d2f0"
      [] at = "d2f0" -> "d2f1"
      [] at = "d2f1" -> "d2f2"
      [] at = "d2f2" -> "d2f3"
      [] at = "d2f3" -> "crlf"
      [] at = "crlf" -> "loop"
      [] OTHER -> "returned"

\* entry of usart_print_string(ch) in main
CallPrintString(at, ch) ==
    /\ MainRuns
    /\ pc = at
    /\ out = <<>>
    /\ out' = usart_print_string(ch)
    /\ UNCHANGED <<pc, i, value, send_buffer, receive_buffer, v, usart, tim,
                   adc, dma, nvic, isrv, histv, cycles, rx_count, agev>>

\* entry of usart_print_int(val) in main
CallPrintInt(at, val) ==
    /\ MainRuns
    /\ pc = at
    /\ out = <<>>
    /\ value' = val
    /\ out' = usart_print_int(val)
    /\ UNCHANGED <<pc, i, send_buffer, receive_buffer, v, usart, tim, adc,
                   dma, nvic, isrv, histv, cycles, rx_count, agev>>

\* buffer_put(send_buffer, byte), with the histories
SendPut(byte) ==
    /\ send_buffer' = buffer_put(send_buffer, byte)
    /\ IF BufFull(send_buffer)
       THEN dropped' = dropped + 1 /\ accepted' = accepted
       ELSE dropped' = dropped /\ accepted' = Append(accepted, byte)

\* one buffer_put(send_buffer, ...) of the print call in progress; the call
\* returns with its last put (lines 320-322, 352)
MainPut ==
    /\ MainRuns
    /\ out # <<>>
    /\ SendPut(Head(out))
    /\ out' = Tail(out)
    /\ pc' = IF Tail(out) = <<>> THEN AfterPrint(pc) ELSE pc
    /\ UNCHANGED <<i, value, receive_buffer, v, usart, tim, adc, dma, nvic,
                   isrv, sent, cycles, rx_count, agev>>

\* the field taken with a shift of k bits instead of 5 * k
FieldShiftByIndex(reg, k) == (reg \div (2 ^ k)) % 32

\* the 5-bit field k of a sequence register (lines 110-113, 115-118)
Field(reg, k) == (reg \div (32 ^ k)) % 32

\* lines 94-98 and 99-103: channel_array[i] = i + base, then
\* adc_set_regular_sequence(unit, n_conv/2, channel_array)
set_sequence(u, base, from, to) ==
    /\ Goto(from, to)
    /\ i' = n_conv \div 2
    /\ adc' = [adc EXCEPT !.sqr3[u] =
                  Sqr3(n_conv \div 2, [k \in 1 .. (n_conv \div 2) |-> k - 1 + base])]
    /\ UNCHANGED <<out, value, send_buffer, receive_buffer, v, usart, tim,
                   dma, nvic, isrv, histv, cycles, rx_count, agev>>

\* lines 105-108
clear_v ==
    /\ Goto("clear_v", "diag1")
    /\ i' = n_conv \div 2
    /\ v' = [k \in (DOMAIN v) \cup (0 .. (n_conv \div 2 - 1)) |->
                IF k < n_conv \div 2 THEN Word(0, 0) ELSE v[k]]
    /\ UNCHANGED <<out, value, send_buffer, receive_buffer, usart, tim, adc,
                   dma, nvic, isrv, histv, cycles, rx_count, agev>>

main_print ==
    \/ CallPrintString("banner", Banner)
    \/ CallPrintString("diag1", Diag1)
    \/ \E k \in 0 .. 3 :
          CallPrintInt(<<"d1f0", "d1f1", "d1f2", "d1f3">>[k + 1],
                       Field(adc.sqr3[1], k))
    \/ CallPrintString("diag2", Diag2)
    \/ \E k \in 0 .. 3 :
          CallPrintInt(<<"d2f0", "d2f1", "d2f2", "d2f3">>[k + 1],
                       Field(adc.sqr3[2], k))
    \/ CallPrintString("crlf", CRLF)

main_sequences ==
    \/ set_sequence(1, 0, "seq1", "seq2")
    \/ set_sequence(2, n_conv \div 2, "seq2", "clear_v")
    \/ clear_v

(* ------------------------------------------------------------------ *)
(* main: operational loop (lines 121-130)                             *)
(* ------------------------------------------------------------------ *)
\* line 124: i = 0; i < 500
for_init ==
    /\ Goto("loop", IF 0 < TIMER_TICKS THEN "wait" ELSE "start")
    /\ i' = 0
    /\ UNCHANGED <<out, value, send_buffer, receive_buffer, v, usart, tim,
                   adc, dma, nvic, isrv, histv, cycles, rx_count, agev>>

\* the loop counting its iterations without polling or clearing CC1IF
timer_wait_unflagged ==
    /\ Goto("wait", IF i + 1 < TIMER_TICKS THEN "wait" ELSE "start")
    /\ i' = i + 1
    /\ UNCHANGED <<out, value, send_buffer, receive_buffer, v, usart, tim,
                   adc, dma, nvic, isrv, histv, cycles, rx_count, agev>>

\* lines 126-127 and 124: leave the poll when CC1IF is set, clear it, i++
timer_wait ==
    /\ Goto("wait", IF i + 1 < TIMER_TICKS THEN "wait" ELSE "start")
    /\ tim.cc1if
    /\ tim' = [tim EXCEPT !.cc1if = FALSE]
    /\ i' = i + 1
    /\ UNCHANGED <<out, value, send_buffer, receive_buffer, v, usart, adc,
                   dma, nvic, isrv, histv, cycles, rx_count, agev>>

\* line 129: adc_start_conversion_regular(ADC1); in dual mode both units
\* convert their sequences; the analog inputs of the pass are the scene
start_conversion ==
    /\ Goto("start", "loop")
    /\ cycles < MaxCycles
    /\ cycles' = cycles + 1
    /\ adc_age' = 0
    /\ \E scene \in Scenes :
          adc' = [adc EXCEPT !.left = IF adc.on[1] THEN n_conv \div 2 ELSE 0,
                             !.scene = scene]
    /\ UNCHANGED <<i, out, value, send_buffer, receive_buffer, v, usart, tim,
                   dma, nvic, isrv, histv, rx_count>>

\* the steps of main, those of its loops first
main ==
    \/ timer_wait
    \/ MainPut
    \/ for_init
    \/ start_conversion
    \/ clock_setup
    \/ gpio_setup
    \/ usart_setup
    \/ main_dma_setup
    \/ adc_setup
    \/ timer_setup
    \/ init_send_buffer
    \/ init_receive_buffer
    \/ main_enable_tx
    \/ main_print
    \/ main_sequences


(* ------------------------------------------------------------------ *)
(* adc1_2_isr (lines 361-375)                                         *)
(* ------------------------------------------------------------------ *)
\* exception entry; line 364: i = 0
adc_isr_enter ==
    /\ ~DmaReady
    /\ AdcIrq
    /\ adc_isr = "idle"
    /\ nvic' = [nvic EXCEPT !.adc_pending = FALSE]
    /\ adc_isr' = "loop"
    /\ isr_i' = 0
    /\ UNCHANGED <<mainv, send_buffer, receive_buffer, v, usart, tim, adc,
                   dma, data, histv, cycles, rx_count, agev>>

\* lines 364-369: one iteration
adc_isr_loop ==
    /\ ~DmaReady
    /\ adc_isr = "loop"
    /\ isr_i < n_conv \div 2
    /\ \E r \in {PutAll(send_buffer, IsrPairBytes(VRead(v, isr_i)), <<>>, 0)} :
          /\ send_buffer' = r[1]
          /\ accepted' = accepted \o r[2]
          /\ dropped' = dropped + r[3]
    /\ isr_i' = isr_i + 1
    /\ UNCHANGED <<mainv, receive_buffer, v, usart, tim, adc, dma, nvic,
                   adc_isr, data, sent, cycles, rx_count, agev>>

\* the handler returning without the call of dma_setup
IsrDmaSetupMissing(channel) == channel

\* the channel merely restarted: enabled with the count reloaded, the memory
\* pointer left where the last burst ended
IsrDmaRestartOnly(channel) ==
    [channel EXCEPT !.en = TRUE, !.cnt = DMA_NUMBER_OF_DATA]

\* line 372: dma_setup()
IsrDmaSetup(channel) == DmaArmed

\* the handler returning without enabling the transmit interrupt
IsrEnableTxMissing(u) == u

\* line 374: usart_enable_tx_interrupt(USART1)
IsrEnableTx(u) == [u EXCEPT !.txeie = TRUE]

\* lines 370-375: line end, dma_setup(), usart_enable_tx_interrupt, return;
\* the interrupt is pending again if EOC is still set
adc_isr_exit ==
    /\ ~DmaReady
    /\ adc_isr = "loop"
    /\ isr_i >= n_conv \div 2
    /\ \E r \in {PutAll(send_buffer, usart_print_string(CRLF), <<>>, 0)} :
          /\ send_buffer' = r[1]
          /\ accepted' = accepted \o r[2]
          /\ dropped' = dropped + r[3]
    /\ dma' = IsrDmaSetup(dma)
    /\ usart' = IsrEnableTx(usart)
    /\ adc_isr' = "idle"
    /\ nvic' = [nvic EXCEPT !.adc_pending = @ \/ (adc.eoc /\ adc.eocie)]
    /\ UNCHANGED <<mainv, receive_buffer, v, tim, adc, isr_i, data, sent,
                   cycles, rx_count, agev>>

adc1_2_isr == adc_isr_enter \/ adc_isr_loop \/ adc_isr_exit

(* ------------------------------------------------------------------ *)
(* usart1_isr (lines 380-398)                                         *)
(* ------------------------------------------------------------------ *)
\* the handler writing the byte it pops without testing TXE
usart1_isr_body_blind ==
    /\ receive_buffer' =
          IF usart.rxne THEN buffer_put(receive_buffer, usart.rdr)
          ELSE receive_buffer
    /\ LET g == buffer_get(send_buffer)
       IN  /\ send_buffer' = g[1]
           /\ data' = g[2]
           /\ IF IsEmptyResult(g[2])
              THEN /\ usart' = [usart EXCEPT !.rxne = FALSE, !.txeie = FALSE]
                   /\ sent' = sent
              ELSE /\ usart' = [usart EXCEPT !.rxne = FALSE, !.txe = FALSE]
                   /\ sent' = Append(sent, g[2] % 256)
    /\ UNCHANGED <<mainv, v, tim, adc, dma, nvic, adc_isr, isr_i, accepted,
                   dropped, cycles, rx_count, adc_age>>

\* the handler's body, run to completion
usart1_isr_body ==
    /\ receive_buffer' =
          IF usart.rxne THEN buffer_put(receive_buffer, usart.rdr)
          ELSE receive_buffer
    /\ IF usart.txe
       THEN LET g == buffer_get(send_buffer)
            IN  /\ send_buffer' = g[1]
                /\ data' = g[2]
                /\ IF IsEmptyResult(g[2])
                   THEN /\ usart' = [usart EXCEPT !.rxne = FALSE,
                                                  !.txeie = FALSE]
                        /\ sent' = sent
                   ELSE /\ usart' = [usart EXCEPT !.rxne = FALSE,
                                                  !.txe = FALSE]
                        /\ sent' = Append(sent, g[2] % 256)
       ELSE /\ usart' = [usart EXCEPT !.rxne = FALSE]
            /\ UNCHANGED <<send_buffer, data, sent>>
    /\ UNCHANGED <<mainv, v, tim, adc, dma, nvic, adc_isr, isr_i, accepted,
                   dropped, cycles, rx_count, adc_age>>

\* taken when its interrupt is pending and adc1_2_isr is neither active nor
\* pending
usart1_isr ==
    /\ ~DmaReady
    /\ UsartIrq
    /\ adc_isr = "idle"
    /\ ~AdcIrq
    /\ usart1_isr_body

(* ------------------------------------------------------------------ *)
(* Hardware                                                           *)
(* ------------------------------------------------------------------ *)
\* hardware whose calibration never completes
CalNever == FALSE /\ UNCHANGED vars

\* calibration of a unit completes
CalDone ==
    \E u \in 1 .. 2 :
       /\ adc.cal[u] = "running"
       /\ adc' = [adc EXCEPT !.cal[u] = "done"]
       /\ UNCHANGED <<mainv, send_buffer, receive_buffer, v, usart, tim, dma,
                      nvic, isrv, histv, cycles, rx_count, agev>>

BurstInFlight == adc.left > 0 \/ adc.req

\* TIM2 reaches the compare value: CC1IF is set.  The event only sets a
\* flag that nothing but the poll of main reads, so it is independent of
\* the handlers and of the serial shifter; it is taken in the states where
\* no handler is pending or active and no byte is in the shifter (a drain
\* of the whole outbound buffer, 128 bytes at 38400 baud (line 162), lasts
\* 37 of the 500 timer periods (lines 124, 278) main waits).  A conversion
\* burst lasts less than one timer period (lines 237, 278): at most
\* MaxTicksInFlight compare events fall into it.
TimerCompare ==
    /\ tim.run
    /\ ~tim.cc1if
    /\ adc_isr = "idle" /\ ~AdcIrq /\ ~UsartIrq /\ ~DmaReady
    /\ usart.txe
    /\ BurstInFlight => adc_age < MaxTicksInFlight
    /\ tim' = [tim EXCEPT !.cc1if = TRUE]
    /\ adc_age' = IF BurstInFlight THEN adc_age + 1 ELSE adc_age
    /\ UNCHANGED <<mainv, send_buffer, receive_buffer, v, usart, adc, dma,
                   nvic, isrv, histv, cycles, rx_count>>

\* one conversion of the scan completes: the dual data register is loaded,
\* a DMA request is raised; after the last channel EOC is set
AdcConvert ==
    /\ adc.left > 0
    /\ ~adc.req
    /\ LET k == (n_conv \div 2) - adc.left + 1
       IN  adc' = [adc EXCEPT !.dr = adc.scene[k],
                              !.left = adc.left - 1,
                              !.req = adc.dmaen,
                              !.eoc = (adc.left = 1)]
    /\ nvic' = [nvic EXCEPT !.adc_pending = @ \/ (adc.left = 1 /\ adc.eocie)]
    /\ UNCHANGED <<mainv, send_buffer, receive_buffer, v, usart, tim, dma,
                   isrv, histv, cycles, rx_count, agev>>

\* the channel serves the request: ADC1_DR is read (which clears EOC) and
\* written to the sample store at the memory index, which increments
DmaTransfer ==
    /\ DmaReady
    /\ v' = VWrite(v, dma.ptr, adc.dr)
    /\ dma' = [dma EXCEPT !.ptr = dma.ptr + 1, !.cnt = dma.cnt - 1]
    /\ adc' = [adc EXCEPT !.req = FALSE, !.eoc = FALSE]
    /\ adc_age' = IF adc.left = 0 THEN 0 ELSE adc_age
    /\ UNCHANGED <<mainv, send_buffer, receive_buffer, usart, tim, nvic,
                   isrv, histv, cycles, rx_count>>

\* the byte in the transmit register has been shifted out: TXE is set
TxDone ==
    /\ ~usart.txe
    /\ usart' = [usart EXCEPT !.txe = TRUE]
    /\ UNCHANGED <<mainv, send_buffer, receive_buffer, v, tim, adc, dma, nvic,
                   isrv, histv, cycles, rx_count, adc_age>>

\* a byte arrives on the serial input: RXNE is set
RxArrive ==
    /\ usart.ue
    /\ ~usart.rxne
    /\ rx_count < MaxRx
    /\ \E b \in RxBytes : usart' = [usart EXCEPT !.rxne = TRUE, !.rdr = b]
    /\ rx_count' = rx_count + 1
    /\ UNCHANGED <<mainv, send_buffer, receive_buffer, v, tim, adc, dma, nvic,
                   isrv, histv, cycles, agev>>

Hardware ==
    \/ CalDone
    \/ TimerCompare
    \/ AdcConvert
    \/ DmaTransfer
    \/ TxDone
    \/ RxArrive

Next == main \/ adc1_2_isr \/ usart1_isr \/ Hardware

Spec == Init /\ [][Next]_vars

\* The processor keeps executing (main, and a handler once entered or
\* pending), and the hardware events keep occurring: the timer reaches its
\* compare value, conversions and transfers complete, the shifter empties,
\* calibration ends.  Nothing is assumed of the serial input.
Progress ==
    \/ TxDone
    \/ TimerCompare
    \/ DmaTransfer
    \/ AdcConvert
    \/ CalDone
    \/ usart1_isr
    \/ adc1_2_isr
    \/ main

FairSpec == Spec /\ WF_vars(Progress)


(* ------------------------------------------------------------------ *)
(* The ring buffer and the transmit service on their own              *)
(* ------------------------------------------------------------------ *)
\* the state main is in after line 87: both buffers initialised
BufInit ==
    /\ pc = "tx_enable"
    /\ i = 0
    /\ out = <<>>
    /\ value = 0
    /\ send_buffer = buffer_init(ZeroBuffer, MainBufferSize)
    /\ receive_buffer = buffer_init(ZeroBuffer, MainBufferSize)
    /\ v = <<>>
    /\ usart = [ue |-> TRUE, txeie |-> FALSE, rxneie |-> TRUE,
                txe |-> TRUE, rxne |-> FALSE, rdr |-> 0]
    /\ tim = [run |-> TRUE, cc1if |-> FALSE]
    /\ adc = [on |-> <<TRUE, TRUE>>, settled |-> <<TRUE, TRUE>>,
              cal |-> <<"done", "done">>, sqr3 |-> <<0, 0>>,
              eocie |-> TRUE, dmaen |-> TRUE,
              left |-> 0, dr |-> Word(0, 0),
              scene |-> [k \in 1 .. (n_conv \div 2) |-> Word(0, 0)],
              req |-> FALSE, eoc |-> FALSE]
    /\ dma = DmaArmed
    /\ nvic = [usart |-> TRUE, adc |-> TRUE, adc_pending |-> FALSE]
    /\ adc_isr = "idle"
    /\ isr_i = 0
    /\ data = 0
    /\ accepted = <<>>
    /\ sent = <<>>
    /\ dropped = 0
    /\ cycles = 0
    /\ rx_count = 0
    /\ adc_age = 0

\* the bytes offered: a counting pattern from either of two first bytes,
\* which together run through every byte value
PutBytes ==
    IF accepted = <<>> /\ dropped = 0 THEN {0, 130}
    ELSE {(accepted[1] + Len(accepted) + dropped) % 256}

\* a producer's buffer_put(send_buffer, b)
BufPut ==
    /\ Len(accepted) + dropped < MaxPuts
    /\ \E b \in PutBytes : SendPut(b)
    /\ UNCHANGED <<mainv, receive_buffer, v, usart, tim, adc, dma, nvic,
                   isrv, sent, cycles, rx_count, agev>>

\* the handler entered for whatever reason
BufService == usart1_isr_body

BufNext == BufPut \/ BufService \/ TxDone

BufSpec == BufInit /\ [][BufNext]_vars

(* ------------------------------------------------------------------ *)
(* usart_print_int on its own                                         *)
(* ------------------------------------------------------------------ *)
Int16 == (0 - 32768) .. 32767

\* main about to call usart_print_int(value), the outbound buffer empty
IntInit ==
    /\ pc = "int_arg"
    /\ i = n_conv \div 2
    /\ out = <<>>
    /\ value \in Int16
    /\ send_buffer = buffer_init(ZeroBuffer, MainBufferSize)
    /\ receive_buffer = buffer_init(ZeroBuffer, MainBufferSize)
    /\ v = <<>>
    /\ usart = [ue |-> TRUE, txeie |-> FALSE, rxneie |-> TRUE,
                txe |-> TRUE, rxne |-> FALSE, rdr |-> 0]
    /\ tim = [run |-> TRUE, cc1if |-> FALSE]
    /\ adc = [on |-> <<TRUE, TRUE>>, settled |-> <<TRUE, TRUE>>,
              cal |-> <<"done", "done">>, sqr3 |-> <<0, 0>>,
              eocie |-> TRUE, dmaen |-> TRUE,
              left |-> 0, dr |-> Word(0, 0),
              scene |-> [k \in 1 .. (n_conv \div 2) |-> Word(0, 0)],
              req |-> FALSE, eoc |-> FALSE]
    /\ dma = DmaArmed
    /\ nvic = [usart |-> TRUE, adc |-> TRUE, adc_pending |-> FALSE]
    /\ adc_isr = "idle"
    /\ isr_i = 0
    /\ data = EmptyMarker
    /\ accepted = <<>>
    /\ sent = <<>>
    /\ dropped = 0
    /\ cycles = 0
    /\ rx_count = 0
    /\ adc_age = 0

IntNext == CallPrintInt("int_arg", value) \/ MainPut

IntSpec == IntInit /\ [][IntNext]_vars

(* ------------------------------------------------------------------ *)
(* adc1_2_isr on its own                                              *)
(* ------------------------------------------------------------------ *)
\* sample store contents: the halves around the digit-count and sign limits
FmtWords == { Word(0, 0), Word(1, 2), Word(4095, 10), Word(32767, 65535),
              Word(65535, 32768) }

FmtStores ==
    [0 .. (n_conv \div 2 - 1) -> FmtWords]
        \cup { [k \in 0 .. (n_conv \div 2 - 1) |-> Word(2 * k + 1, 2 * k + 2)] }

\* the operational loop with the interrupt of a completed burst pending,
\* the outbound buffer drained
FmtInit ==
    /\ pc = "wait"
    /\ i = 0
    /\ out = <<>>
    /\ value = 0
    /\ send_buffer = buffer_init(ZeroBuffer, MainBufferSize)
    /\ receive_buffer = buffer_init(ZeroBuffer, MainBufferSize)
    /\ \E st \in FmtStores :
          /\ v = st
          /\ adc = [on |-> <<TRUE, TRUE>>, settled |-> <<TRUE, TRUE>>,
                    cal |-> <<"done", "done">>, sqr3 |-> <<0, 0>>,
                    eocie |-> TRUE, dmaen |-> TRUE,
                    left |-> 0, dr |-> st[n_conv \div 2 - 1],
                    scene |-> [k \in 1 .. (n_conv \div 2) |-> st[k - 1]],
                    req |-> FALSE, eoc |-> FALSE]
    /\ usart = [ue |-> TRUE, txeie |-> FALSE, rxneie |-> TRUE,
                txe |-> TRUE, rxne |-> FALSE, rdr |-> 0]
    /\ tim = [run |-> TRUE, cc1if |-> FALSE]
    /\ dma = [en |-> TRUE, ptr |-> n_conv \div 2,
              cnt |-> DMA_NUMBER_OF_DATA - n_conv \div 2]
    /\ nvic = [usart |-> TRUE, adc |-> TRUE, adc_pending |-> TRUE]
    /\ adc_isr = "idle"
    /\ isr_i = 0
    /\ data = EmptyMarker
    /\ accepted = <<>>
    /\ sent = <<>>
    /\ dropped = 0
    /\ cycles = 1
    /\ rx_count = 0
    /\ adc_age = 0

FmtNext == adc1_2_isr

FmtSpec == FmtInit /\ [][FmtNext]_vars

(* ------------------------------------------------------------------ *)
(* adc1_2_isr entered at every fill level of the outbound buffer      *)
(* ------------------------------------------------------------------ *)
\* the number of bytes queued when the handler is entered, and the number
\* of bytes that went through the buffer before them (the second one makes
\* the stored bytes wrap around the end of the storage)
FillLevels == 0 .. BUFFER_SIZE

FillOffsets == {0, BUFFER_SIZE - 28}

\* sample stores giving the shortest line, the line of full-scale readings
\* and the longest line
FillStores ==
    { [k \in 0 .. (n_conv \div 2 - 1) |-> w] :
         w \in {Word(0, 0), Word(4095, 4095), Word(65535, 65535)} }

\* the bytes queued earlier
FillText(n) == [k \in 1 .. n |-> (7 * k) % 256]

\* the buffer of capacity MainBufferSize that has taken off bytes, given
\* them out, and taken n more: byte number k (from 0) went to slot
\* k % (capacity + 1), where the latest byte written stays
Prefilled(off, n) ==
    LET slots == MainBufferSize + 1
        used == { k % slots : k \in 0 .. (off + n - 1) }
    IN  [head |-> off % slots,
         tail |-> (off + n) % slots,
         size |-> MainBufferSize,
         data |-> [j \in used |->
                     IF j + slots < off + n
                     THEN FillText(off + n)[j + slots + 1]
                     ELSE FillText(off + n)[j + 1]]]

\* the operational loop with the interrupt of a completed burst pending and
\* the outbound buffer at any fill level
FillInit ==
    /\ pc = "wait"
    /\ i = 0
    /\ out = <<>>
    /\ value = 0
    /\ \E off \in FillOffsets, n \in FillLevels :
          /\ send_buffer = Prefilled(off, n)
          /\ accepted = FillText(off + n)
          /\ sent = FillText(off)
    /\ receive_buffer = buffer_init(ZeroBuffer, MainBufferSize)
    /\ \E st \in FillStores :
          /\ v = st
          /\ adc = [on |-> <<TRUE, TRUE>>, settled |-> <<TRUE, TRUE>>,
                    cal |-> <<"done", "done">>, sqr3 |-> <<0, 0>>,
                    eocie |-> TRUE, dmaen |-> TRUE,
                    left |-> 0, dr |-> st[n_conv \div 2 - 1],
                    scene |-> [k \in 1 .. (n_conv \div 2) |-> st[k - 1]],
                    req |-> FALSE, eoc |-> FALSE]
    /\ \E en \in BOOLEAN :
          usart = [ue |-> TRUE, txeie |-> en, rxneie |-> TRUE,
                   txe |-> ~en, rxne |-> FALSE, rdr |-> 0]
    /\ tim = [run |-> TRUE, cc1if |-> FALSE]
    /\ dma = [en |-> TRUE, ptr |-> n_conv \div 2,
              cnt |-> DMA_NUMBER_OF_DATA - n_conv \div 2]
    /\ nvic = [usart |-> TRUE, adc |-> TRUE, adc_pending |-> TRUE]
    /\ adc_isr = "idle"
    /\ isr_i = 0
    /\ data = 0
    /\ dropped = 0
    /\ cycles = 1
    /\ rx_count = 0
    /\ adc_age = 0

FillNext == adc1_2_isr

\* the processor keeps executing the handler once it is pending
FillSpec == FillInit /\ [][FillNext]_vars /\ WF_vars(FillNext)

(* ------------------------------------------------------------------ *)
(* Reading text back                                                  *)
(* ------------------------------------------------------------------ *)
IsDigit(c) == c >= 48 /\ c <= 57

\* the decimal numeral of n >= 0, most significant digit first
RECURSIVE Dec(_)
Dec(n) == IF n < 10 THEN <<48 + n>> ELSE Append(Dec(n \div 10), 48 + (n % 10))

\* the number a string of digits denotes
RECURSIVE ParseDigits(_)
ParseDigits(s) ==
    IF s = <<>> THEN 0
    ELSE 10 * ParseDigits(SubSeq(s, 1, Len(s) - 1)) + (s[Len(s)] - 48)

\* an optional '-', then one or more digits, no leading zero
IsNumeral(s) ==
    LET digits == IF s # <<>> /\ s[1] = 45 THEN Tail(s) ELSE s
    IN  /\ digits # <<>>
        /\ \A k \in 1 .. Len(digits) : IsDigit(digits[k])
        /\ Len(digits) > 1 => digits[1] # 48

ParseInt(s) ==
    IF s # <<>> /\ s[1] = 45 THEN 0 - ParseDigits(Tail(s)) ELSE ParseDigits(s)

\* the space-terminated tokens of a text, in order
RECURSIVE Tokens(_, _)
Tokens(s, cur) ==
    IF s = <<>> THEN <<>>
    ELSE IF Head(s) = 32 THEN <<cur>> \o Tokens(Tail(s), <<>>)
         ELSE Tokens(Tail(s), Append(cur, Head(s)))

\* a 16-bit pattern read as a two's-complement integer
Signed16(h) == IF h >= 32768 THEN h - 65536 ELSE h

(* ------------------------------------------------------------------ *)
(* C1: the line adc1_2_isr appends                                    *)
(* ------------------------------------------------------------------ *)
\* the handler has run once and returned
IsrReturned == adc_isr = "idle" /\ ~nvic.adc_pending /\ isr_i = n_conv \div 2

RECURSIVE ExpectedPairs(_, _)
ExpectedPairs(store, k) ==
    IF k = 0 THEN <<>>
    ELSE ExpectedPairs(store, k - 1)
            \o Dec(store[k - 1][2] % 65536) \o <<32, 45, 32>>
            \o Dec(store[k - 1][1] % 65536) \o <<32>>

ExpectedLine(store) == ExpectedPairs(store, n_conv \div 2) \o <<13, 10>>

ExampleStore == [k \in 0 .. 3 |-> Word(2 * k + 1, 2 * k + 2)]

\* "2 - 1 4 - 3 6 - 5 8 - 7 \r\n"
ExampleLine == <<50, 32, 45, 32, 49, 32, 52, 32, 45, 32, 51, 32,
                 54, 32, 45, 32, 53, 32, 56, 32, 45, 32, 55, 32, 13, 10>>

\* C1: one run of adc1_2_isr on an outbound buffer with enough free space
\* appends, for each of the n_conv/2 words in ascending order, the decimal
\* low half, " - ", the decimal high half and a space, then CR LF, and drops
\* nothing; for the words 0x00010002 .. 0x00070008 the bytes are exactly
\* "2 - 1 4 - 3 6 - 5 8 - 7 \r\n".
C1_IsrLine ==
    IsrReturned =>
        /\ accepted = ExpectedLine(v)
        /\ BufContents(send_buffer) = accepted
        /\ dropped = 0
        /\ v = ExampleStore => accepted = ExampleLine

C1_Witness ==
    /\ IsrReturned
    /\ v = ExampleStore
    /\ accepted = ExampleLine
    /\ BufCount(send_buffer) = 26

(* ------------------------------------------------------------------ *)
(* C2: usart_print_int round trip                                     *)
(* ------------------------------------------------------------------ *)
\* the text without its final byte
Body(s) == SubSeq(s, 1, Len(s) - 1)

\* C2: for every signed 16-bit value, usart_print_int puts an optional '-'
\* (present exactly for negative values), the digits of the magnitude most
\* significant first without leading zeros, and one space; reading the text
\* back gives the value; 0 gives "0 " and -1 gives "-1 ".
C2_RoundTrip ==
    pc = "returned" =>
        /\ dropped = 0
        /\ accepted # <<>>
        /\ accepted[Len(accepted)] = 32
        /\ IsNumeral(Body(accepted))
        /\ (Body(accepted)[1] = 45) <=> (value < 0)
        /\ ParseInt(Body(accepted)) = value
        /\ value = 0 => accepted = <<48, 32>>
        /\ value = 0 - 1 => accepted = <<45, 49, 32>>

C2_Witness ==
    /\ pc = "returned"
    /\ value = 0 - 32768
    /\ accepted = <<45, 51, 50, 55, 54, 56, 32>>

(* ------------------------------------------------------------------ *)
(* C3: how the halves are read                                        *)
(* ------------------------------------------------------------------ *)
\* the tokens of the line: low, "-", high for each word
LineTokens == Tokens(accepted, <<>>)

\* C3 (as stated): each half is rendered as the decimal text of the half
\* read as a two's-complement 16-bit integer.
C3_SignedHalves ==
    IsrReturned =>
        \A k \in 0 .. (n_conv \div 2 - 1) :
            /\ ParseInt(LineTokens[3 * k + 1]) = Signed16(v[k][2])
            /\ ParseInt(LineTokens[3 * k + 3]) = Signed16(v[k][1])

\* C3 (amended): each half is rendered as the decimal text of the half read
\* as an unsigned 16-bit integer, 0 .. 65535, never with a minus sign; the
\* text equals the two's-complement reading only for halves below 0x8000.
C3_UnsignedHalves ==
    IsrReturned =>
        /\ Len(LineTokens) = 3 * (n_conv \div 2)
        /\ \A k \in 0 .. (n_conv \div 2 - 1) :
              /\ IsNumeral(LineTokens[3 * k + 1])
              /\ IsNumeral(LineTokens[3 * k + 3])
              /\ LineTokens[3 * k + 1][1] # 45
              /\ LineTokens[3 * k + 3][1] # 45
              /\ ParseInt(LineTokens[3 * k + 1]) = v[k][2]
              /\ ParseInt(LineTokens[3 * k + 3]) = v[k][1]
              /\ LineTokens[3 * k + 2] = <<45>>

C3_Witness ==
    /\ IsrReturned
    /\ v[0] = Word(65535, 32768)
    /\ LineTokens[1] = <<51, 50, 55, 54, 56>>
    /\ LineTokens[3] = <<54, 53, 53, 51, 53>>

(* ------------------------------------------------------------------ *)
(* C4: capacity and order of the ring buffer                          *)
(* ------------------------------------------------------------------ *)
\* the accepted bytes not yet handed to the transmitter
Unsent == SubSeq(accepted, Len(sent) + 1, Len(accepted))

C4_State ==
    /\ send_buffer.size = BUFFER_SIZE
    /\ receive_buffer.size = BUFFER_SIZE
    /\ BufCount(send_buffer) <= BUFFER_SIZE
    /\ Len(sent) <= Len(accepted)
    /\ BufContents(send_buffer) = Unsent
    /\ sent = SubSeq(accepted, 1, Len(sent))
    /\ sent = <<>> =>
          /\ Len(accepted) <= BUFFER_SIZE
          /\ dropped > 0 => Len(accepted) = BUFFER_SIZE

C4_Step ==
    /\ dropped' > dropped =>
          /\ BufCount(send_buffer) = BUFFER_SIZE
          /\ send_buffer' = send_buffer
    /\ dropped' = dropped /\ accepted' # accepted =>
          BufCount(send_buffer) < BUFFER_SIZE

\* C4: the outbound buffer, initialised with capacity BUFFER_SIZE = 128,
\* accepts puts while it holds fewer than 128 bytes; with no get, exactly the
\* first 128 puts are accepted; a put on the full buffer is dropped and
\* leaves head, tail and the stored bytes unchanged; the stored bytes are
\* always the accepted bytes not yet taken, oldest first, so gets return the
\* accepted bytes in the order of the puts, starting with the first.
C4_CapacityFifo == []C4_State /\ [][C4_Step]_vars

C4_Witness ==
    /\ dropped = 1
    /\ Len(accepted) = BUFFER_SIZE
    /\ sent = accepted
    /\ sent[1] = 130
    /\ BufEmpty(send_buffer)

(* ------------------------------------------------------------------ *)
(* C5: get on an empty buffer                                         *)
(* ------------------------------------------------------------------ *)
C5_State ==
    /\ \A b \in 0 .. 255 : ~IsEmptyResult(b)
    /\ IsEmptyResult(EmptyMarker)
    /\ data \in (0 .. 255) \cup {EmptyMarker}
    /\ \A k \in 1 .. Len(sent) : sent[k] \in 0 .. 255
    /\ Len(sent) + BufCount(send_buffer) = Len(accepted)

C5_Step ==
    /\ (BufService /\ usart.txe /\ BufEmpty(send_buffer)) =>
          /\ data' = EmptyMarker
          /\ send_buffer' = send_buffer
          /\ sent' = sent
    /\ (BufService /\ usart.txe /\ ~BufEmpty(send_buffer)) =>
          /\ data' = BufContents(send_buffer)[1]
          /\ sent' = Append(sent, data')
          /\ BufCount(send_buffer') = BufCount(send_buffer) - 1

\* C5: a get on the freshly initialised or drained outbound buffer returns
\* the empty marker and changes neither head nor tail nor the bytes sent;
\* the test ((data & 0xFF00) > 0) is true of the marker and false of every
\* byte 0 .. 255, so every byte taken from the buffer is written to the
\* transmitter and the marker never is.
C5_EmptyGet == []C5_State /\ [][C5_Step]_vars

C5_Witness ==
    /\ data = EmptyMarker
    /\ BufEmpty(send_buffer)
    /\ sent = accepted
    /\ \E k \in 1 .. Len(sent) : sent[k] = 255
    /\ \E k \in 1 .. Len(sent) : sent[k] = 0

(* ------------------------------------------------------------------ *)
(* C6: order of the pipeline events                                   *)
(* ------------------------------------------------------------------ *)
\* every word of the burst has been transferred to the sample store
BurstStored ==
    /\ ~BurstInFlight
    /\ dma.en
    /\ dma.ptr = n_conv \div 2
    /\ \A k \in 0 .. (n_conv \div 2 - 1) : VRead(v, k) = adc.scene[k + 1]

C6_State ==
    /\ adc_isr = "loop" => BurstStored
    /\ AdcIrq => adc.left = 0
    /\ pc = "start" /\ MainRuns => ~BurstInFlight /\ dma = DmaArmed

C6_Step ==
    /\ cycles' # cycles =>
          /\ ~BurstInFlight
          /\ adc_isr = "idle" /\ ~AdcIrq
          /\ dma = DmaArmed
          /\ BurstInFlight'
    /\ (adc_isr = "idle" /\ adc_isr' = "loop") => BurstStored
    /\ (adc_isr = "loop" /\ adc_isr' = "idle") => dma' = DmaArmed /\ ~BurstInFlight
    /\ v' # v => adc_isr = "idle" /\ dma.ptr < n_conv \div 2

\* C6: in every cycle the events occur in the order start, burst complete,
\* format, re-arm, next start: adc1_2_isr runs only when every word of the
\* burst is in the sample store, the store is not written while the handler
\* is running, and when main issues a start-conversion command
\* no burst is in flight, no handler is pending or running and the DMA
\* channel is armed at the beginning of the store.
C6_PipelineOrder == []C6_State /\ [][C6_Step]_vars

C6_Witness ==
    /\ cycles = 2
    /\ adc_isr = "loop"
    /\ isr_i = 3
    /\ VRead(v, 0) = Word(4095, 4095)

(* ------------------------------------------------------------------ *)
(* C7: what the transmitter is given                                  *)
(* ------------------------------------------------------------------ *)
C7_State ==
    /\ Len(sent) <= Len(accepted)
    /\ \A k \in 1 .. Len(sent) : sent[k] = accepted[k]
    /\ Len(accepted) - Len(sent) = BufCount(send_buffer)

C7_Step ==
    /\ sent' # sent =>
          /\ Len(sent) < Len(accepted)
          /\ sent' = Append(sent, accepted[Len(sent) + 1])
          /\ data' = accepted[Len(sent) + 1]
          /\ accepted' = accepted
    /\ (usart.txeie /\ ~usart'.txeie) =>
          /\ data' = EmptyMarker
          /\ Len(sent) = Len(accepted)
          /\ sent' = sent

\* C7: whatever the interleaving of main, adc1_2_isr and usart1_isr, the
\* bytes written to the transmit register are a prefix of the bytes the
\* outbound buffer accepted: each write is the next accepted byte, the
\* empty marker is never written, and the transmit interrupt is disabled
\* only by a handler run whose get returned the empty marker.
C7_SentPrefix == []C7_State /\ [][C7_Step]_vars

\* usart1_isr, entered for a received byte, has taken a byte of the banner
\* between two puts of main
C7_Witness ==
    /\ pc = "banner"
    /\ out # <<>>
    /\ Len(sent) = 1
    /\ Len(accepted) > 1
    /\ ~usart.txeie

(* ------------------------------------------------------------------ *)
(* C8: every accepted byte is transmitted                             *)
(* ------------------------------------------------------------------ *)
\* C8: under fairness of the processor and of the hardware events, every
\* byte the outbound buffer accepted is eventually written to the transmit
\* register: again and again the transmitter has been given every accepted
\* byte (the bytes sent are always a prefix of the bytes accepted, and
\* neither sequence ever shrinks).
C8_EventuallySent == []<>(Len(sent) = Len(accepted))

C8_Witness ==
    /\ cycles = 2
    /\ Len(sent) = Len(accepted)
    /\ Len(sent) > 120
    /\ dropped = 0

(* ------------------------------------------------------------------ *)
(* C9: one complete line per conversion cycle                         *)
(* ------------------------------------------------------------------ *)
\* the handler of the latest start-conversion command has returned
PassDone ==
    cycles > 0 /\ adc_isr = "idle" /\ ~AdcIrq /\ ~BurstInFlight

\* the last n bytes of a text
Last(s, n) == SubSeq(s, Len(s) - n + 1, Len(s))

\* C9: for every start-conversion command, the first included, the whole
\* line of the pass (n_conv/2 pairs and CR LF) is accepted by the outbound
\* buffer and no byte is dropped.
C9_LineComplete ==
    /\ dropped = 0
    /\ PassDone =>
          /\ Len(accepted) >= Len(ExpectedLine(v))
          /\ Last(accepted, Len(ExpectedLine(v))) = ExpectedLine(v)

(* ------------------------------------------------------------------ *)
(* C10: the stream begins with the banner and the diagnostic lines    *)
(* ------------------------------------------------------------------ *)
\* "Dual ADC 8 channels 0-7 DMA IRQ\r\nADC1_SQR3 fields 0 1 2 3 \r\n
\*  ADC2_SQR3 fields 4 5 6 7 \r\n"
StartupText ==
    <<68, 117, 97, 108, 32, 65, 68, 67, 32, 56, 32, 99, 104, 97,
      110, 110, 101, 108, 115, 32, 48, 45, 55, 32, 68, 77, 65,
      32, 73, 82, 81, 13, 10, 65, 68, 67, 49, 95, 83, 81, 82, 51,
      32, 102, 105, 101, 108, 100, 115, 32, 48, 32, 49, 32, 50,
      32, 51, 32, 13, 10, 65, 68, 67, 50, 95, 83, 81, 82, 51, 32,
      102, 105, 101, 108, 100, 115, 32, 52, 32, 53, 32, 54, 32,
      55, 32, 13, 10>>

\* one of the two texts is a prefix of the other
Agree(s, t) ==
    \A k \in 1 .. (IF Len(s) < Len(t) THEN Len(s) ELSE Len(t)) : s[k] = t[k]

C10_State ==
    /\ Agree(accepted, StartupText)
    /\ Agree(sent, StartupText)
    /\ Len(sent) <= Len(accepted)
    /\ Len(accepted) <= Len(StartupText) => dropped = 0
    /\ pc \in {"loop", "wait", "start"} => Len(accepted) >= Len(StartupText)
    /\ cycles > 0 => Len(accepted) >= Len(StartupText)

C10_Step ==
    /\ (adc_isr = "loop" /\ accepted' # accepted) =>
          Len(accepted) >= Len(StartupText)
    /\ (pc' = pc /\ out' = out /\ accepted' # accepted) =>
          Len(accepted) >= Len(StartupText)

\* C10: the bytes accepted and the bytes transmitted begin with the banner
\* and the two diagnostic lines (fields 0 1 2 3 and 4 5 6 7), complete and
\* in order; none of these bytes is dropped, and every byte of a conversion
\* result line is accepted, hence transmitted, after all of them.
C10_StartupFirst == []C10_State /\ [][C10_Step]_vars

C10_Witness ==
    /\ cycles = 1
    /\ Len(sent) > Len(StartupText)
    /\ SubSeq(sent, 1, Len(StartupText)) = StartupText
    /\ sent[Len(StartupText) + 1] = 50


(* ------------------------------------------------------------------ *)
(* C11: queued bytes and the transmit interrupt                       *)
(* ------------------------------------------------------------------ *)
\* main has finished its startup printing and no handler is executing
Quiescent ==
    /\ pc \in {"loop", "wait", "start"}
    /\ out = <<>>
    /\ adc_isr = "idle"

\* C11: whenever the outbound buffer holds bytes while main is past its
\* startup printing and no interrupt handler is executing, the transmit
\* interrupt (TXEIE) is enabled.
C11_QueuedImpliesArmed ==
    (Quiescent /\ BufCount(send_buffer) > 0) => usart.txeie


(* ------------------------------------------------------------------ *)
(* C12: every re-arm returns the channel to word 0 of the store       *)
(* ------------------------------------------------------------------ *)
\* the position within its pass, from 0, of the transfer now requested
TransferIndex == (n_conv \div 2) - adc.left - 1

\* the step is a run of dma_setup: line 83 of main or line 372 of the handler
ReArmStep ==
    \/ pc = "dma_setup" /\ pc' # pc
    \/ adc_isr = "loop" /\ adc_isr' = "idle"

\* the step is a transfer of the channel
TransferStep == dma'.cnt < dma.cnt

C12_State ==
    /\ n_conv \div 2 <= V_WORDS
    /\ DOMAIN v \subseteq 0 .. (n_conv \div 2 - 1)
    /\ dma.ptr \in 0 .. (n_conv \div 2)
    /\ DmaReady => dma.ptr = TransferIndex

C12_Step ==
    /\ ReArmStep =>
          dma' = [en |-> TRUE, ptr |-> 0, cnt |-> DMA_NUMBER_OF_DATA]
    /\ TransferStep =>
          /\ dma.ptr = TransferIndex
          /\ dma.ptr \in 0 .. (n_conv \div 2 - 1)
          /\ dma.ptr < V_WORDS
          /\ VRead(v', dma.ptr) = adc.scene[TransferIndex + 1]
          /\ \A k \in 0 .. (V_WORDS - 1) :
                k # dma.ptr => VRead(v', k) = VRead(v, k)
    /\ v' # v => TransferStep \/ pc = "clear_v"

\* C12: every run of dma_setup leaves the channel enabled with its memory
\* index at word 0 and a count of 64; in every pass the k-th transfer
\* (k = 0 .. n_conv/2 - 1) stores the k-th converted word in word k, and no
\* transfer writes a word at index n_conv/2 or above or outside the store.
C12_ReArmedAtWordZero == []C12_State /\ [][C12_Step]_vars

\* the second pass has stored its four words over those of the first
C12_Witness ==
    /\ cycles = 2
    /\ ~BurstInFlight
    /\ dma.ptr = n_conv \div 2
    /\ dma.cnt = DMA_NUMBER_OF_DATA - n_conv \div 2
    /\ \A k \in 0 .. (n_conv \div 2 - 1) : VRead(v, k) = adc.scene[k + 1]
    /\ adc.scene[1] = Word(4095, 4095)


(* ------------------------------------------------------------------ *)
(* C13: the handler on a partly or completely full outbound buffer    *)
(* ------------------------------------------------------------------ *)
\* the bytes the handler's next step offers to the outbound buffer
StepBytes ==
    IF adc_isr # "loop" THEN <<>>
    ELSE IF isr_i < n_conv \div 2 THEN IsrPairBytes(VRead(v, isr_i))
    ELSE CRLF

Min(a, b) == IF a < b THEN a ELSE b

C13_State ==
    /\ BufCount(send_buffer) <= BUFFER_SIZE
    /\ BufContents(send_buffer) = Unsent
    /\ isr_i \in 0 .. (n_conv \div 2)
    /\ IsrReturned =>
          /\ dma = [en |-> TRUE, ptr |-> 0, cnt |-> DMA_NUMBER_OF_DATA]
          /\ usart.txeie

C13_Step ==
    LET old == BufContents(send_buffer)
        new == BufContents(send_buffer')
        fit == Min(BUFFER_SIZE - Len(old), Len(StepBytes))
    IN  /\ Len(new) = Len(old) + fit
        /\ SubSeq(new, 1, Len(old)) = old
        /\ SubSeq(new, Len(old) + 1, Len(new)) = SubSeq(StepBytes, 1, fit)
        /\ dropped' = dropped + Len(StepBytes) - fit
        /\ sent' = sent
        /\ (adc_isr = "loop" /\ adc_isr' = "idle") =>
              /\ dma' = [en |-> TRUE, ptr |-> 0, cnt |-> DMA_NUMBER_OF_DATA]
              /\ usart'.txeie

\* C13: at every fill level of the outbound buffer, the full one included,
\* the handler returns; each of its puts appends the byte behind the bytes
\* already queued or, when the buffer is full, drops it and leaves the
\* queued bytes and their order as they were; on return the channel is
\* re-armed (enabled, word 0, count 64) and the transmit interrupt enabled.
C13_FullBufferHandled ==
    []C13_State /\ [][C13_Step]_vars /\ <>IsrReturned

\* the handler has returned from a run entered on the full buffer, the
\* stored bytes wrapping around the end of the storage: the whole line of
\* 58 bytes was dropped and the 128 queued bytes are still there
C13_Witness ==
    /\ IsrReturned
    /\ dropped = 58
    /\ BufCount(send_buffer) = BUFFER_SIZE
    /\ send_buffer.head = BUFFER_SIZE - 28
    /\ BufContents(send_buffer) =
          [k \in 1 .. BUFFER_SIZE |-> FillText(2 * BUFFER_SIZE - 28)[BUFFER_SIZE - 28 + k]]


(* ------------------------------------------------------------------ *)
(* C14: 500 compare events between start-conversion commands          *)
(* ------------------------------------------------------------------ *)
\* the step observes CC1IF set and clears it
ObserveAndClear == tim.cc1if /\ ~tim'.cc1if

\* the step issues the start-conversion command
StartCommand == cycles' # cycles

\* in the loop i is the number of events observed since the loop was
\* entered or the last command was issued
C14_State ==
    /\ pc = "wait" => i \in 0 .. (TIMER_TICKS - 1)
    /\ pc = "start" => i = TIMER_TICKS
    /\ (pc = "loop" /\ cycles > 0) => i = TIMER_TICKS
    /\ cycles > 0 => pc \in {"loop", "wait", "start"}

C14_Step ==
    /\ StartCommand =>
          /\ pc = "start" /\ pc' = "loop"
          /\ i = TIMER_TICKS
          /\ cycles' = cycles + 1
          /\ adc.on[1] /\ adc'.left = n_conv \div 2
    /\ ObserveAndClear =>
          /\ pc = "wait"
          /\ i < TIMER_TICKS
          /\ i' = i + 1
    /\ (pc \in {"loop", "wait", "start"} /\ i' # i) =>
          \/ pc = "loop" /\ pc' = "wait" /\ i' = 0
          \/ ObserveAndClear
    /\ (pc' = "loop" /\ pc # "loop") => StartCommand \/ pc = "crlf"
    /\ (pc = "loop" /\ pc' # pc) => pc' = "wait" /\ i' = 0
    /\ (pc = "wait" /\ pc' # pc) => pc' = "start" /\ i' = TIMER_TICKS
    /\ (pc = "start" /\ pc' # pc) => StartCommand

\* C14: main clears the compare flag only when it has observed it set,
\* counting each such event; from the end of setup, and from each
\* start-conversion command, it observes exactly 500 events before the
\* next command, which is issued once, to unit 1, and never earlier.
C14_StartEvery500 == []C14_State /\ [][C14_Step]_vars

\* the second command has just been issued, 500 events after the first
C14_Witness ==
    /\ cycles = 2
    /\ pc = "loop"
    /\ i = TIMER_TICKS
    /\ adc.left = n_conv \div 2


(* ------------------------------------------------------------------ *)
(* C15: order of the power-on and calibration steps                   *)
(* ------------------------------------------------------------------ *)
\* the positions of main in lines 248-262, and the one after them
StartupOrder ==
    <<"adc1_on", "adc1_delay", "adc1_rstcal", "adc1_cal", "adc1_wait",
      "adc2_on", "adc2_delay", "adc2_rstcal", "adc2_cal", "adc2_wait",
      "timer_setup">>

\* the unit a position belongs to
UnitOf(k) == IF k <= 5 THEN 1 ELSE 2

\* what the step leaving position k does
StepEffect(k) ==
    LET u == UnitOf(k)
        s == ((k - 1) % 5) + 1
    IN  CASE s = 1 -> ~adc.on[u] /\ adc'.on[u]
          [] s = 2 -> adc.on[u] /\ ~adc.settled[u] /\ adc'.settled[u]
          [] s = 3 -> adc.settled[u] /\ adc'.cal[u] = "reset"
          [] s = 4 -> adc.cal[u] = "reset" /\ adc'.cal[u] = "running"
          [] s = 5 -> adc.cal[u] = "done" /\ adc' = adc

C15_State ==
    /\ \A u \in 1 .. 2 :
          adc.cal[u] \in {"running", "done"} => adc.on[u] /\ adc.settled[u]
    /\ adc.on[2] => adc.cal[1] = "done"
    /\ cycles > 0 => adc.cal = <<"done", "done">>

C15_Step ==
    /\ \A k \in 1 .. 10 :
          (pc = StartupOrder[k] /\ pc' # pc) =>
             pc' = StartupOrder[k + 1] /\ StepEffect(k)
    /\ \A u \in 1 .. 2 :
          /\ (~adc.on[u] /\ adc'.on[u]) => pc = StartupOrder[5 * u - 4]
          /\ (~adc.settled[u] /\ adc'.settled[u]) => pc = StartupOrder[5 * u - 3]
          /\ (adc.cal[u] # "reset" /\ adc'.cal[u] = "reset") =>
                pc = StartupOrder[5 * u - 2]
          /\ (adc.cal[u] # "running" /\ adc'.cal[u] = "running") =>
                pc = StartupOrder[5 * u - 1] /\ adc.on[u] /\ adc.settled[u]
    /\ (~adc.on[2] /\ adc'.on[2]) => adc.cal[1] = "done"
    /\ cycles' # cycles => adc.cal = <<"done", "done">>

\* C15: main powers unit 1 on, lets the settle delay pass, resets and
\* starts its calibration and waits for the calibration to end, then does
\* the same for unit 2, in this order; a calibration starts only on a unit
\* that is powered and settled, unit 2 is powered on only after unit 1's
\* calibration has ended, and a start-conversion command is issued only
\* after both calibrations have ended.
C15_StartupOrder == []C15_State /\ [][C15_Step]_vars

\* the first start-conversion command has been issued
C15_Witness ==
    /\ cycles = 1
    /\ adc.on = <<TRUE, TRUE>>
    /\ adc.settled = <<TRUE, TRUE>>
    /\ adc.cal = <<"done", "done">>
    /\ adc.left = n_conv \div 2


(* ------------------------------------------------------------------ *)
(* C16: the busy-waits                                                *)
(* ------------------------------------------------------------------ *)
\* main is polling a flag that is not asserted
Waiting ==
    \/ pc = "adc1_wait" /\ adc.cal[1] = "running"
    \/ pc = "adc2_wait" /\ adc.cal[2] = "running"
    \/ pc = "wait" /\ ~tim.cc1if

\* while main polls, a handler that is pending or active can take its step
C16_State ==
    (Waiting /\ out = <<>> /\ ~DmaReady) =>
       /\ (adc_isr = "idle" /\ AdcIrq) => ENABLED adc_isr_enter
       /\ adc_isr = "loop" => ENABLED (adc_isr_loop \/ adc_isr_exit)
       /\ (adc_isr = "idle" /\ ~AdcIrq /\ UsartIrq) => ENABLED usart1_isr

\* main leaves a poll only in a step that finds the flag asserted, and a
\* command is issued only from the end of the timer wait
C16_Step ==
    /\ Waiting => (pc' = pc /\ i' = i /\ cycles' = cycles)
    /\ (pc = "adc1_wait" /\ pc' # pc) => adc.cal[1] = "done"
    /\ (pc = "adc2_wait" /\ pc' # pc) => adc.cal[2] = "done"
    /\ (pc = "wait" /\ (pc' # pc \/ i' # i)) => tim.cc1if
    /\ (pc' = "start" /\ pc # "start") => pc = "wait" /\ tim.cc1if
    /\ cycles' # cycles => pc = "start"

\* C16: with hardware that keeps asserting the awaited flags, setup ends
\* and main issues every start-conversion command of the run; main leaves a
\* poll only when it finds the flag asserted, so that with a flag that
\* stays clear it stays at the poll and issues no command, and the handlers
\* still take their steps while it polls.
C16_WaitsUnbounded ==
    /\ []C16_State
    /\ [][C16_Step]_vars
    /\ <>(pc \in {"loop", "wait", "start"} /\ cycles = MaxCycles)

\* main polling the clear compare flag while adc1_2_isr is printing
C16_Witness ==
    /\ pc = "wait"
    /\ ~tim.cc1if
    /\ cycles = MaxCycles
    /\ adc_isr = "loop"
    /\ isr_i = 2


(* ------------------------------------------------------------------ *)
(* C17: the transmit register is written only when it is empty        *)
(* ------------------------------------------------------------------ *)
\* the step is a run of usart1_isr: it is the only step that clears RXNE,
\* takes a byte from the outbound buffer or disables the transmit interrupt
HandlerRun ==
    \/ usart.rxne /\ ~usart'.rxne
    \/ send_buffer'.head # send_buffer.head
    \/ usart.txeie /\ ~usart'.txeie

C17_Step ==
    /\ sent' # sent =>
          /\ usart.txe
          /\ ~usart'.txe
          /\ Len(sent') = Len(sent) + 1
          /\ SubSeq(sent', 1, Len(sent)) = sent
          /\ HandlerRun
    /\ ~usart.txe => (sent' = sent /\ send_buffer'.head = send_buffer.head)

\* C17: usart1_isr writes the transmit register only in a run that finds
\* TXE set, one byte per run at most, whether the run was caused by TXE or
\* by a received byte and whether or not the transmit interrupt is enabled;
\* while a byte is in the transmit register (TXE clear) none is written and
\* none is taken from the outbound buffer.
C17_WriteOnlyWhenEmpty == [][C17_Step]_vars

\* before the first conversion pass, with the transmit interrupt disabled,
\* a run of usart1_isr caused by a received byte has stored that byte and
\* written the first queued byte to the empty transmit register
C17_Witness ==
    /\ cycles = 0
    /\ pc = "wait"
    /\ ~usart.txeie
    /\ ~usart.txe
    /\ BufContents(receive_buffer) = <<88>>
    /\ sent = <<68>>
    /\ data = 68

=============================================================================
